---- MODULE Spec2Model ----
(***************************************************************************)
(* Model of the ULN2003 stepper driver (src/src/stepper/mod.rs): the state *)
(* table (get_pin_states, get_next_state, get_prev_state) and the motor    *)
(* controller (new, apply_state, step, set_direction, stop).               *)
(*                                                                         *)
(* Two specifications share the variables:                                 *)
(*   Spec       the controller driven by arbitrary calls of step,          *)
(*              set_direction and stop, each pin write of a call being     *)
(*              allowed to fail;                                           *)
(*   TableSpec  the three pure table functions applied repeatedly to an    *)
(*              arbitrary starting State.                                  *)
(* A pin write that fails is taken to leave the level of its pin as it     *)
(* was; the level of the four pins at construction is Low (the value the   *)
(* output register has when main configures the pins).                     *)
(***************************************************************************)
EXTENDS Integers, Sequences, FiniteSets

\* ---------------------------------------------------------------- bounds
\* longest run of consecutive successful step calls that is recorded
MaxRun == 8
\* largest number of table function applications in TableSpec
MaxIter == 8
\* largest number of forward step calls of a there-and-back sequence in TripSpec
MaxTrip == 5

\* ------------------------------------------------------------ data types
\* enum State
State0 == 0
State1 == 1
State2 == 2
State3 == 3
State4 == 4
State5 == 5
State6 == 6
State7 == 7
State8 == 8
State == {State0, State1, State2, State3, State4, State5, State6, State7, State8}

\* enum Direction
Normal == "Normal"
Reverse == "Reverse"
Direction == {Normal, Reverse}

\* embedded_hal::digital::PinState
Low == "Low"
High == "High"

\* ------------------------------------------------------------ state table
\* get_pin_states with the rows of State2 and State3 exchanged
get_pin_states_swapped(s) ==
    CASE s = State0 -> <<Low, Low, Low, Low>>
      [] s = State1 -> <<Low, Low, Low, High>>
      [] s = State2 -> <<Low, Low, High, Low>>
      [] s = State3 -> <<Low, Low, High, High>>
      [] s = State4 -> <<Low, High, High, Low>>
      [] s = State5 -> <<Low, High, Low, Low>>
      [] s = State6 -> <<High, High, Low, Low>>
      [] s = State7 -> <<High, Low, Low, Low>>
      [] s = State8 -> <<High, Low, Low, High>>

\* get_pin_states with a third pin High in the row of State6
get_pin_states_three_high(s) ==
    CASE s = State0 -> <<Low, Low, Low, Low>>
      [] s = State1 -> <<Low, Low, Low, High>>
      [] s = State2 -> <<Low, Low, High, High>>
      [] s = State3 -> <<Low, Low, High, Low>>
      [] s = State4 -> <<Low, High, High, Low>>
      [] s = State5 -> <<Low, High, Low, Low>>
      [] s = State6 -> <<High, High, High, Low>>
      [] s = State7 -> <<High, Low, Low, Low>>
      [] s = State8 -> <<High, Low, Low, High>>

get_pin_states(s) ==
    CASE s = State0 -> <<Low, Low, Low, Low>>
      [] s = State1 -> <<Low, Low, Low, High>>
      [] s = State2 -> <<Low, Low, High, High>>
      [] s = State3 -> <<Low, Low, High, Low>>
      [] s = State4 -> <<Low, High, High, Low>>
      [] s = State5 -> <<Low, High, Low, Low>>
      [] s = State6 -> <<High, High, Low, Low>>
      [] s = State7 -> <<High, Low, Low, Low>>
      [] s = State8 -> <<High, Low, Low, High>>

\* get_next_state that saturates at State8 instead of wrapping
get_next_state_nowrap(s) ==
    CASE s = State0 -> State1
      [] s = State1 -> State2
      [] s = State2 -> State3
      [] s = State3 -> State4
      [] s = State4 -> State5
      [] s = State5 -> State6
      [] s = State6 -> State7
      [] s = State7 -> State8
      [] s = State8 -> State8

\* get_next_state that wraps State8 to State0
get_next_state_wrap0(s) ==
    CASE s = State0 -> State1
      [] s = State1 -> State2
      [] s = State2 -> State3
      [] s = State3 -> State4
      [] s = State4 -> State5
      [] s = State5 -> State6
      [] s = State6 -> State7
      [] s = State7 -> State8
      [] s = State8 -> State0

\* get_next_state that leaves State0 where it is
get_next_state_zero_stays(s) ==
    CASE s = State0 -> State0
      [] s = State1 -> State2
      [] s = State2 -> State3
      [] s = State3 -> State4
      [] s = State4 -> State5
      [] s = State5 -> State6
      [] s = State6 -> State7
      [] s = State7 -> State8
      [] s = State8 -> State1

\* get_next_state that skips State4
get_next_state_skip(s) ==
    CASE s = State0 -> State1
      [] s = State1 -> State2
      [] s = State2 -> State3
      [] s = State3 -> State5
      [] s = State4 -> State5
      [] s = State5 -> State6
      [] s = State6 -> State7
      [] s = State7 -> State8
      [] s = State8 -> State1

get_next_state(s) ==
    CASE s = State0 -> State1
      [] s = State1 -> State2
      [] s = State2 -> State3
      [] s = State3 -> State4
      [] s = State4 -> State5
      [] s = State5 -> State6
      [] s = State6 -> State7
      [] s = State7 -> State8
      [] s = State8 -> State1

\* get_prev_state that wraps State1 to State0
get_prev_state_wrap0(s) ==
    CASE s = State0 -> State8
      [] s = State1 -> State0
      [] s = State2 -> State1
      [] s = State3 -> State2
      [] s = State4 -> State3
      [] s = State5 -> State4
      [] s = State6 -> State5
      [] s = State7 -> State6
      [] s = State8 -> State7

\* get_prev_state that treats State0 as State8
get_prev_state_zero7(s) ==
    CASE s = State0 -> State7
      [] s = State1 -> State8
      [] s = State2 -> State1
      [] s = State3 -> State2
      [] s = State4 -> State3
      [] s = State5 -> State4
      [] s = State6 -> State5
      [] s = State7 -> State6
      [] s = State8 -> State7

get_prev_state(s) ==
    CASE s = State0 -> State8
      [] s = State1 -> State8
      [] s = State2 -> State1
      [] s = State3 -> State2
      [] s = State4 -> State3
      [] s = State5 -> State4
      [] s = State6 -> State5
      [] s = State7 -> State6
      [] s = State8 -> State7

\* ------------------------------------------------------------- variables
VARIABLES
    gpio2, gpio3, gpio4, gpio5, \* level of the four output pins (wires A, B, C, D)
    state,                      \* ULN2003.state
    dir,                        \* ULN2003.dir
    op,                         \* the last call: "new", "step", "set_direction", "stop"
    arg,                        \* the Direction passed to the last call, "none" if it takes none
    fails,                      \* the pin writes (1..4) of the last call that fail when attempted
    result,                     \* what the last call returned: "Ok" or "Err"
    pre,                        \* state, dir and pin levels when the last call began
    log,                        \* the pin writes the last call attempted, in order
    stepped,                    \* TRUE once step has been called
    run,                        \* the current run of consecutive successful step calls
    sh,                         \* state, dir and pins of the same calls made with no write failing
    trip,                       \* TripSpec: the current there-and-back sequence of step calls
    count,                      \* main: count
    direction,                  \* main: direction
    pc,                         \* main: where the loop is, "loop" or "flip"
    tvis,                       \* TableSpec: the States visited, the starting State first
    tfns,                       \* TableSpec: the functions applied, in order
    tpat                        \* TableSpec: get_pin_states of the last State of tvis

\* the variables of the callers of TripSpec and MainSpec
aux == <<trip, count, direction, pc>>
ctl == <<gpio2, gpio3, gpio4, gpio5, state, dir, op, arg, fails, result, pre, log,
         stepped, run, sh, trip, count, direction, pc>>
vars == <<gpio2, gpio3, gpio4, gpio5, state, dir, op, arg, fails, result, pre, log,
          stepped, run, sh, trip, count, direction, pc, tvis, tfns, tpat>>

\* the four pins in write order
pins == <<gpio2, gpio3, gpio4, gpio5>>

\* set_state whose pin takes the level even when the write reports an error
set_state_writes_anyway(pin, level, ok) ==
    IF ok THEN [pin |-> level, res |-> "Ok"]
          ELSE [pin |-> level, res |-> "Err"]

\* ------------------------------------------------------------ controller
\* one pin write: the new level of the pin and the Result
set_state(pin, level, ok) ==
    IF ok THEN [pin |-> level, res |-> "Ok"]
          ELSE [pin |-> pin, res |-> "Err"]

\* the record of one attempted write
entry(i, level, w) == [pin |-> i, level |-> level, ok |-> (w.res = "Ok")]

\* write_all that attempts all four writes and reports a failure at the end
write_all_continue(p, levels, f) ==
    LET w1 == set_state(p[1], levels[1], 1 \notin f)
        w2 == set_state(p[2], levels[2], 2 \notin f)
        w3 == set_state(p[3], levels[3], 3 \notin f)
        w4 == set_state(p[4], levels[4], 4 \notin f)
    IN  [pins |-> <<w1.pin, w2.pin, w3.pin, w4.pin>>,
         res |-> IF f \cap (1..4) = {} THEN "Ok" ELSE "Err",
         log |-> <<entry(1, levels[1], w1), entry(2, levels[2], w2),
                   entry(3, levels[3], w3), entry(4, levels[4], w4)>>]

\* four writes in sequence, each followed by `?`
write_all(p, levels, f) ==
    LET w1 == set_state(p[1], levels[1], 1 \notin f)
        w2 == set_state(p[2], levels[2], 2 \notin f)
        w3 == set_state(p[3], levels[3], 3 \notin f)
        w4 == set_state(p[4], levels[4], 4 \notin f)
        e1 == entry(1, levels[1], w1)
        e2 == entry(2, levels[2], w2)
        e3 == entry(3, levels[3], w3)
        e4 == entry(4, levels[4], w4)
    IN  IF w1.res = "Err"
          THEN [pins |-> <<w1.pin, p[2], p[3], p[4]>>, res |-> "Err", log |-> <<e1>>]
        ELSE IF w2.res = "Err"
          THEN [pins |-> <<w1.pin, w2.pin, p[3], p[4]>>, res |-> "Err", log |-> <<e1, e2>>]
        ELSE IF w3.res = "Err"
          THEN [pins |-> <<w1.pin, w2.pin, w3.pin, p[4]>>, res |-> "Err",
                log |-> <<e1, e2, e3>>]
        ELSE IF w4.res = "Err"
          THEN [pins |-> <<w1.pin, w2.pin, w3.pin, w4.pin>>, res |-> "Err",
                log |-> <<e1, e2, e3, e4>>]
        ELSE [pins |-> <<w1.pin, w2.pin, w3.pin, w4.pin>>, res |-> "Ok",
              log |-> <<e1, e2, e3, e4>>]

\* apply_state with the levels of the last two pins exchanged
apply_state_swapped(p, s, f) ==
    LET states == get_pin_states(s)
    IN  write_all(p, <<states[1], states[2], states[4], states[3]>>, f)

\* apply_state that writes only the first three pins
apply_state_three(p, s, f) ==
    LET states == get_pin_states(s)
    IN  write_all(p, <<states[1], states[2], states[3], p[4]>>, f)

apply_state(p, s, f) == write_all(p, get_pin_states(s), f)

\* what a call finds when it begins, with the call before it and its Result
snapshot == [state |-> state, dir |-> dir, pins |-> pins, op |-> op, result |-> result]

Init ==
    /\ gpio2 = Low /\ gpio3 = Low /\ gpio4 = Low /\ gpio5 = Low
    /\ state = State0
    /\ dir = Normal
    /\ op = "new"
    /\ arg = "none"
    /\ fails = {}
    /\ result = "Ok"
    /\ pre = [state |-> State0, dir |-> Normal, pins |-> <<Low, Low, Low, Low>>,
              op |-> "new", result |-> "Ok"]
    /\ log = <<>>
    /\ stepped = FALSE
    /\ run = [from |-> State0, obs |-> <<>>]
    /\ sh = [state |-> State0, dir |-> Normal, pins |-> <<Low, Low, Low, Low>>]
    /\ trip = [from |-> State0, fwd |-> 0, back |-> 0, clean |-> TRUE]
    /\ count = 0
    /\ direction = Normal
    /\ pc = "loop"
    /\ tvis = <<State0>>
    /\ tfns = <<>>
    /\ tpat = get_pin_states(State0)

\* step that stores the new state only when every pin write succeeded
step_commit_late(f) ==
    LET s == IF dir = Normal THEN get_next_state(state) ELSE get_prev_state(state)
        r == apply_state(pins, s, f)
    IN  /\ state' = IF r.res = "Ok" THEN s ELSE state
        /\ gpio2' = r.pins[1] /\ gpio3' = r.pins[2]
        /\ gpio4' = r.pins[3] /\ gpio5' = r.pins[4]
        /\ result' = r.res
        /\ log' = r.log
        /\ op' = "step" /\ arg' = "none" /\ fails' = f
        /\ pre' = snapshot
        /\ stepped' = TRUE
        /\ run' = IF r.res = "Err" THEN [from |-> state, obs |-> <<>>]
                  ELSE IF Len(run.obs) < MaxRun
                         THEN [from |-> run.from, obs |-> Append(run.obs, r.pins)]
                  ELSE [from |-> state, obs |-> <<r.pins>>]
        /\ sh' = LET s2 == IF sh.dir = Normal THEN get_next_state(sh.state)
                                               ELSE get_prev_state(sh.state)
                     r2 == apply_state(sh.pins, s2, {})
                 IN  [state |-> IF r2.res = "Ok" THEN s2 ELSE sh.state,
                      dir |-> sh.dir, pins |-> r2.pins]
        /\ UNCHANGED <<dir, tvis, tfns, tpat>>

step(f) ==
    LET s == IF dir = Normal THEN get_next_state(state) ELSE get_prev_state(state)
        r == apply_state(pins, s, f)
    IN  /\ state' = s
        /\ gpio2' = r.pins[1] /\ gpio3' = r.pins[2]
        /\ gpio4' = r.pins[3] /\ gpio5' = r.pins[4]
        /\ result' = r.res
        /\ log' = r.log
        /\ op' = "step" /\ arg' = "none" /\ fails' = f
        /\ pre' = snapshot
        /\ stepped' = TRUE
        /\ run' = IF r.res = "Err" THEN [from |-> s, obs |-> <<>>]
                  ELSE IF Len(run.obs) < MaxRun
                         THEN [from |-> run.from, obs |-> Append(run.obs, r.pins)]
                  ELSE [from |-> state, obs |-> <<r.pins>>]
        /\ sh' = LET s2 == IF sh.dir = Normal THEN get_next_state(sh.state)
                                               ELSE get_prev_state(sh.state)
                     r2 == apply_state(sh.pins, s2, {})
                 IN  [state |-> s2, dir |-> sh.dir, pins |-> r2.pins]
        /\ UNCHANGED <<dir, tvis, tfns, tpat>>

\* set_direction that flips the direction instead of storing its argument
set_direction_toggle(d) ==
    /\ dir' = IF dir = Normal THEN Reverse ELSE Normal
    /\ op' = "set_direction" /\ arg' = d /\ fails' = {}
    /\ result' = "Ok"
    /\ log' = <<>>
    /\ pre' = snapshot
    /\ run' = [from |-> state, obs |-> <<>>]
    /\ sh' = [sh EXCEPT !.dir = IF sh.dir = Normal THEN Reverse ELSE Normal]
    /\ UNCHANGED <<gpio2, gpio3, gpio4, gpio5, state, stepped, tvis, tfns, tpat>>

set_direction(d) ==
    /\ dir' = d
    /\ op' = "set_direction" /\ arg' = d /\ fails' = {}
    /\ result' = "Ok"
    /\ log' = <<>>
    /\ pre' = snapshot
    /\ run' = [from |-> state, obs |-> <<>>]
    /\ sh' = [sh EXCEPT !.dir = d]
    /\ UNCHANGED <<gpio2, gpio3, gpio4, gpio5, state, stepped, tvis, tfns, tpat>>

\* stop that also puts the stored state back to State0
stop_reset(f) ==
    LET r == write_all(pins, <<Low, Low, Low, Low>>, f)
    IN  /\ gpio2' = r.pins[1] /\ gpio3' = r.pins[2]
        /\ gpio4' = r.pins[3] /\ gpio5' = r.pins[4]
        /\ result' = r.res
        /\ log' = r.log
        /\ op' = "stop" /\ arg' = "none" /\ fails' = f
        /\ pre' = snapshot
        /\ state' = State0
        /\ run' = [from |-> State0, obs |-> <<>>]
        /\ sh' = [state |-> State0, dir |-> sh.dir,
                  pins |-> write_all(sh.pins, <<Low, Low, Low, Low>>, {}).pins]
        /\ UNCHANGED <<dir, stepped, tvis, tfns, tpat>>

stop(f) ==
    LET r == write_all(pins, <<Low, Low, Low, Low>>, f)
    IN  /\ gpio2' = r.pins[1] /\ gpio3' = r.pins[2]
        /\ gpio4' = r.pins[3] /\ gpio5' = r.pins[4]
        /\ result' = r.res
        /\ log' = r.log
        /\ op' = "stop" /\ arg' = "none" /\ fails' = f
        /\ pre' = snapshot
        /\ run' = [from |-> state, obs |-> <<>>]
        /\ sh' = [sh EXCEPT !.pins = write_all(sh.pins, <<Low, Low, Low, Low>>, {}).pins]
        /\ UNCHANGED <<state, dir, stepped, tvis, tfns, tpat>>

Next ==
    \/ \E f \in SUBSET (1..4) : step(f) /\ UNCHANGED aux
    \/ \E d \in Direction : set_direction(d) /\ UNCHANGED aux
    \/ \E f \in SUBSET (1..4) : stop(f) /\ UNCHANGED aux

Spec == Init /\ [][Next]_vars

\* the controller when no pin write fails
NoFailNext ==
    \/ step({}) /\ UNCHANGED aux
    \/ \E d \in Direction : set_direction(d) /\ UNCHANGED aux
    \/ stop({}) /\ UNCHANGED aux

NoFailSpec == Init /\ [][NoFailNext]_vars

\* ------------------------------------------ stepping there and back again
\* A caller that makes any calls, and keeps in trip the sequence under way:
\* from, the stored state when it began; fwd, the step calls made with
\* direction Normal; back, the step calls made after set_direction(Reverse);
\* clean, no call of the sequence returned an error.
fresh(s) == [from |-> s, fwd |-> 0, back |-> 0, clean |-> TRUE]

trip_step(f) ==
    /\ step(f)
    /\ trip' = IF dir = Normal
                 THEN IF trip.back = 0 /\ trip.fwd < MaxTrip
                        THEN [trip EXCEPT !.fwd = @ + 1, !.clean = @ /\ result' = "Ok"]
                        ELSE [from |-> state, fwd |-> 1, back |-> 0,
                              clean |-> result' = "Ok"]
               ELSE IF trip.fwd > 0 /\ trip.back < trip.fwd
                 THEN [trip EXCEPT !.back = @ + 1, !.clean = @ /\ result' = "Ok"]
               ELSE fresh(state')
    /\ UNCHANGED <<count, direction, pc>>

trip_set_direction(d) ==
    /\ set_direction(d)
    /\ trip' = IF d = Reverse /\ dir = Normal /\ trip.fwd > 0 /\ trip.back = 0
                 THEN trip
                 ELSE fresh(state)
    /\ UNCHANGED <<count, direction, pc>>

trip_stop(f) ==
    /\ stop(f)
    /\ trip' = fresh(state)
    /\ UNCHANGED <<count, direction, pc>>

TripNext ==
    \/ \E f \in SUBSET (1..4) : trip_step(f)
    \/ \E d \in Direction : trip_set_direction(d)
    \/ \E f \in SUBSET (1..4) : trip_stop(f)

TripSpec == Init /\ [][TripNext]_vars

\* ------------------------------------------------------ the driver loop
\* the number of step calls main makes before it stops and turns round
MainSteps == 5000

\* main_step that compares count with <= instead of <
main_step_offbyone ==
    /\ pc = "loop"
    /\ count <= MainSteps
    /\ step({})
    /\ count' = count + 1
    /\ UNCHANGED <<direction, pc, trip>>

\* if count < 5000 { motor.step().unwrap(); delay.delay_ms(5); count += 1; }
main_step ==
    /\ pc = "loop"
    /\ count < MainSteps
    /\ step({})
    /\ count' = count + 1
    /\ UNCHANGED <<direction, pc, trip>>

\* else { motor.stop().unwrap(); ...
main_stop ==
    /\ pc = "loop"
    /\ ~(count < MainSteps)
    /\ stop({})
    /\ pc' = "flip"
    /\ UNCHANGED <<count, direction, trip>>

\* ... the direction is flipped and handed to the motor; count = 0; }
main_flip ==
    /\ pc = "flip"
    /\ LET d == IF direction = Normal THEN Reverse ELSE Normal
       IN  /\ direction' = d
           /\ set_direction(d)
    /\ count' = 0
    /\ pc' = "loop"
    /\ UNCHANGED trip

MainNext == main_step \/ main_stop \/ main_flip

MainSpec == Init /\ [][MainNext]_vars

\* -------------------------------------------------- the table functions
TableInit ==
    /\ gpio2 = Low /\ gpio3 = Low /\ gpio4 = Low /\ gpio5 = Low
    /\ state = State0
    /\ dir = Normal
    /\ op = "new"
    /\ arg = "none"
    /\ fails = {}
    /\ result = "Ok"
    /\ pre = [state |-> State0, dir |-> Normal, pins |-> <<Low, Low, Low, Low>>,
              op |-> "new", result |-> "Ok"]
    /\ log = <<>>
    /\ stepped = FALSE
    /\ run = [from |-> State0, obs |-> <<>>]
    /\ sh = [state |-> State0, dir |-> Normal, pins |-> <<Low, Low, Low, Low>>]
    /\ trip = [from |-> State0, fwd |-> 0, back |-> 0, clean |-> TRUE]
    /\ count = 0
    /\ direction = Normal
    /\ pc = "loop"
    /\ \E s \in State : tvis = <<s>> /\ tpat = get_pin_states(s)
    /\ tfns = <<>>

call_get_next_state ==
    /\ Len(tfns) < MaxIter
    /\ LET s == get_next_state(tvis[Len(tvis)])
       IN  /\ tvis' = Append(tvis, s)
           /\ tpat' = get_pin_states(s)
    /\ tfns' = Append(tfns, "next")
    /\ UNCHANGED ctl

call_get_prev_state ==
    /\ Len(tfns) < MaxIter
    /\ LET s == get_prev_state(tvis[Len(tvis)])
       IN  /\ tvis' = Append(tvis, s)
           /\ tpat' = get_pin_states(s)
    /\ tfns' = Append(tfns, "prev")
    /\ UNCHANGED ctl

TableNext == call_get_next_state \/ call_get_prev_state

TableSpec == TableInit /\ [][TableNext]_vars

\* ================================================================ claims

\* C1: get_pin_states returns, for each of the 9 states, the tabulated levels
\* of the pins A, B, C, D (read as a 4-digit number, High = 1):
\* 0->0000, 1->0001, 2->0011, 3->0010, 4->0110, 5->0100, 6->1100, 7->1000,
\* 8->1001.  Checked on every State the table functions reach in TableSpec.
C1_PatternTable ==
    LET s == tvis[Len(tvis)]
        bit(l) == IF l = High THEN 1 ELSE 0
    IN  /\ Len(tpat) = 4
        /\ \A i \in 1..4 : tpat[i] \in {Low, High}
        /\ bit(tpat[1]) * 1000 + bit(tpat[2]) * 100 + bit(tpat[3]) * 10 + bit(tpat[4])
             = CASE s = 0 -> 0
                 [] s = 1 -> 1
                 [] s = 2 -> 11
                 [] s = 3 -> 10
                 [] s = 4 -> 110
                 [] s = 5 -> 100
                 [] s = 6 -> 1100
                 [] s = 7 -> 1000
                 [] s = 8 -> 1001

C1_Witness ==
    /\ Len(tfns) = 2
    /\ tvis = <<State2, State3, State4>>
    /\ tpat = <<Low, High, High, Low>>

\* C2: for every state s in 1..8, get_prev_state(get_next_state(s)) = s and
\* get_next_state(get_prev_state(s)) = s: wherever the two functions were
\* applied one after the other to a state of 1..8, the result is that state.
C2_InverseCycle ==
    \A i \in 1..(Len(tfns) - 1) :
        (tvis[i] \in 1..8 /\ tfns[i] # tfns[i + 1]) => tvis[i + 2] = tvis[i]

C2_Witness ==
    /\ Len(tfns) = 4
    /\ tvis[1] = State8
    /\ tfns = <<"next", "prev", "prev", "next">>
    /\ tvis[3] = State8 /\ tvis[5] = State8

\* C3: get_next_state restricted to 1..8 is a single 8-cycle: from any s in
\* 1..8, the 8th application is the first to return to s, the 8 states
\* visited on the way are exactly 1..8, and State0 is never visited.
C3_SingleCycle ==
    (tvis[1] \in 1..8 /\ \A i \in 1..Len(tfns) : tfns[i] = "next") =>
        /\ \A i \in 1..Len(tvis) : tvis[i] # State0
        /\ \A i \in 2..Len(tvis) : i <= 8 => tvis[i] # tvis[1]
        /\ Len(tfns) >= 8 =>
              /\ tvis[9] = tvis[1]
              /\ {tvis[i] : i \in 1..8} = 1..8

C3_Witness ==
    /\ tvis[1] = State5
    /\ Len(tfns) = 8
    /\ \A i \in 1..8 : tfns[i] = "next"
    /\ tvis[9] = State5

\* C4: once step has been called, whatever calls of step, set_direction and
\* stop followed and whether they failed, the stored state is in 1..8;
\* State0 is held only before the first step.
C4_StateZeroOnlyBeforeFirstStep ==
    /\ stepped => state \in 1..8
    /\ ~stepped => state = State0

C4_Witness ==
    /\ stepped
    /\ op = "step" /\ result = "Err"
    /\ pre.dir = Reverse /\ pre.state = State1
    /\ state = State8

\* C5: the first successful step of a controller still in State0 stores
\* State1 and drives the pins to (0,0,0,1) when the direction is Normal, and
\* stores State8 and drives the pins to (1,0,0,1) when set_direction(Reverse)
\* came before it.
C5_FirstStep ==
    (op = "step" /\ result = "Ok" /\ pre.state = State0) =>
        /\ pre.dir = Normal => (state = State1 /\ pins = <<Low, Low, Low, High>>)
        /\ pre.dir = Reverse => (state = State8 /\ pins = <<High, Low, Low, High>>)

C5_Witness ==
    /\ op = "step" /\ result = "Ok"
    /\ pre.state = State0 /\ pre.op = "set_direction" /\ pre.dir = Reverse
    /\ state = State8
    /\ pins = <<High, Low, Low, High>>

\* C6: from State1 with direction Normal, 8 consecutive successful step
\* calls show the pin patterns of State2, State3, ..., State8, State1 in this
\* order, and the controller is then in State1.
C6_FullForwardCycle ==
    (run.from = State1 /\ dir = Normal) =>
        /\ \A i \in 1..Len(run.obs) :
              i <= 8 => run.obs[i] = get_pin_states(IF i = 8 THEN State1 ELSE i + 1)
        /\ Len(run.obs) = 8 => (state = State1 /\ pins = get_pin_states(State1))

C6_Witness ==
    /\ run.from = State1 /\ dir = Normal
    /\ Len(run.obs) = 8
    /\ run.obs[1] = <<Low, Low, High, High>>
    /\ run.obs[8] = <<Low, Low, Low, High>>
    /\ state = State1

\* C7: a successful stop leaves all four pins Low and the stored state and
\* direction as they were, and the step that follows it moves to the
\* successor (Normal) or predecessor (Reverse) of the state before the stop.
C7_StopKeepsPosition ==
    [][ /\ (op' = "stop" /\ result' = "Ok") =>
              /\ pins' = <<Low, Low, Low, Low>>
              /\ state' = state
              /\ dir' = dir
        /\ (op = "stop" /\ result = "Ok" /\ op' = "step") =>
              state' = IF pre.dir = Normal THEN get_next_state(pre.state)
                                           ELSE get_prev_state(pre.state)
      ]_vars

C7_Witness ==
    /\ op = "step" /\ pre.op = "stop" /\ pre.result = "Ok"
    /\ pre.pins = <<Low, Low, Low, Low>>
    /\ pre.state = State4 /\ pre.dir = Normal
    /\ state = State5

\* C8: step writes the pins in the order A, B, C, D and stops at the first
\* failing write: when write k is the first to fail, step returns an error,
\* the pins before k hold the levels of the new state's pattern, the pins k..4
\* keep the levels they had before the call, no write after k is attempted,
\* and the stored state is the new state all the same.
C8_StepPartialWrite ==
    (op = "step" /\ fails # {}) =>
        LET k == CHOOSE i \in fails : \A j \in fails : i <= j
            new == IF pre.dir = Normal THEN get_next_state(pre.state)
                                       ELSE get_prev_state(pre.state)
        IN  /\ result = "Err"
            /\ state = new
            /\ \A i \in 1..4 : i < k => pins[i] = get_pin_states(new)[i]
            /\ \A i \in 1..4 : i >= k => pins[i] = pre.pins[i]
            /\ Len(log) = k
            /\ \A i \in 1..k : log[i].pin = i /\ log[i].ok = (i < k)

C8_Witness ==
    /\ op = "step" /\ result = "Err"
    /\ fails = {3}
    /\ pins[1] # pre.pins[1]
    /\ pins[1] = get_pin_states(state)[1] /\ pins[2] = get_pin_states(state)[2]
    /\ pins[4] = pre.pins[4] /\ pins[4] # get_pin_states(state)[4]
    /\ state # pre.state

\* C9: set_direction changes only the stored direction: the four pin levels
\* and the stored state are as before the call, it returns no error, the
\* stored direction is its argument, and the step that follows moves to the
\* successor (argument Normal) or predecessor (argument Reverse).
C9_SetDirectionFrame ==
    [][ /\ op' = "set_direction" =>
              /\ pins' = pins
              /\ state' = state
              /\ result' = "Ok"
              /\ dir' = arg'
              /\ log' = <<>>
        /\ (op = "set_direction" /\ op' = "step") =>
              state' = IF arg = Normal THEN get_next_state(pre.state)
                                       ELSE get_prev_state(pre.state)
      ]_vars

C9_Witness ==
    /\ op = "set_direction" /\ arg = Reverse /\ dir = Reverse
    /\ pre.dir = Normal
    /\ state = State3
    /\ pins = <<Low, Low, High, Low>>

\* C10: stop drives the pins Low in the order A, B, C, D and aborts at the
\* first failing write: when write k is the first to fail, stop returns an
\* error, the pins before k are Low, the pins k..4 keep the levels they had
\* before the call, and the stored state and direction are unchanged.
C10_StopPartialWrite ==
    (op = "stop" /\ fails # {}) =>
        LET k == CHOOSE i \in fails : \A j \in fails : i <= j
        IN  /\ result = "Err"
            /\ state = pre.state
            /\ dir = pre.dir
            /\ \A i \in 1..4 : i < k => pins[i] = Low
            /\ \A i \in 1..4 : i >= k => pins[i] = pre.pins[i]
            /\ Len(log) = k
            /\ \A i \in 1..k : log[i].pin = i /\ log[i].level = Low /\ log[i].ok = (i < k)

C10_Witness ==
    /\ op = "stop" /\ result = "Err"
    /\ fails = {2, 3}
    /\ pre.pins = <<High, Low, Low, High>>
    /\ pins = <<Low, Low, Low, High>>
    /\ state = State8

\* C11: a failing pin write can leave the four pins in a combination that is
\* neither the levels before the call, nor the pattern of the old state, nor
\* the pattern of the new stored state.  The execution: set_direction(Reverse)
\* on the new controller, then a step whose fourth write is the only one to
\* fail; the pins are then (1,0,0,0).
C11_InconsistentPins ==
    (op = "step" /\ pre.state = State0 /\ pre.dir = Reverse /\ fails = {4}) =>
        /\ result = "Err"
        /\ pins = <<High, Low, Low, Low>>
        /\ pins # pre.pins
        /\ pins # get_pin_states(pre.state)
        /\ pins # get_pin_states(state)

C11_Witness ==
    /\ op = "step" /\ result = "Err" /\ fails = {4}
    /\ pre.op = "set_direction" /\ pre.state = State0 /\ pre.dir = Reverse
    /\ pre.pins = <<Low, Low, Low, Low>>
    /\ state = State8
    /\ pins = <<High, Low, Low, Low>>

\* C12: get_next_state(State0) = State1 and get_prev_state(State0) = State8;
\* State0 and State8 have the same successor, State1, and State0 and State1
\* have the same predecessor, State8.
C12_SentinelEntry ==
    \A i \in 1..Len(tfns) :
        /\ (tvis[i] \in {State0, State8} /\ tfns[i] = "next") => tvis[i + 1] = State1
        /\ (tvis[i] \in {State0, State1} /\ tfns[i] = "prev") => tvis[i + 1] = State8

C12_Witness ==
    /\ tvis = <<State0, State8, State1, State8>>
    /\ tfns = <<"prev", "next", "prev">>

\* C13: whenever a step call returns Ok, the four pin levels are the pattern
\* of the stored state, whatever came before it (failed step or stop calls
\* that left the pins partly written, a stop, changes of direction).
C13_OkStepShowsPattern ==
    (op = "step" /\ result = "Ok") => pins = get_pin_states(state)

C13_Witness ==
    /\ op = "step" /\ result = "Ok"
    /\ pre.result = "Err"
    /\ pre.pins # get_pin_states(pre.state)
    /\ pre.pins # <<Low, Low, Low, Low>>
    /\ pins = get_pin_states(state)

\* C16: for every state s in 1..8 the patterns of s and of get_next_state(s)
\* differ in exactly one pin, and so do those of s and get_prev_state(s); from
\* State0 the step to State1 changes one pin and the step to State8 two.
C16_HalfStep ==
    [][ LET s == tvis[Len(tvis)]
            n == Cardinality({i \in 1..4 : tpat[i] # tpat'[i]})
        IN  /\ s \in 1..8 => n = 1
            /\ s = State0 => n = (IF tvis'[Len(tvis')] = State8 THEN 2 ELSE 1)
      ]_vars

C16_Witness ==
    /\ tvis = <<State0, State8, State7, State8, State1>>
    /\ tpat = <<Low, Low, Low, High>>

\* C18: if the stored state s is in 1..8 and the pins show the pattern of s
\* when step is called, a step that fails leaves the pins showing either the
\* pattern of s or the pattern of the new stored state.
C18_FailedStepFromConsistent ==
    (op = "step" /\ result = "Err" /\ pre.state \in 1..8
        /\ pre.pins = get_pin_states(pre.state)) =>
        \/ pins = get_pin_states(pre.state)
        \/ pins = get_pin_states(state)

C18_Witness ==
    /\ op = "step" /\ result = "Err"
    /\ pre.state = State5 /\ pre.dir = Normal
    /\ pre.pins = <<Low, High, Low, Low>>
    /\ state = State6
    /\ pins = <<High, High, Low, Low>>

\* C14: the stored state and direction never depend on the outcome of pin
\* writes: a run and the run of the same calls in which no write fails (sh)
\* have the same stored state and direction after every call; a failed step
\* is not retried, the next step advances from the already advanced state.
C14_StateIgnoresWriteOutcome ==
    /\ state = sh.state
    /\ dir = sh.dir

C14_Witness ==
    /\ op = "step" /\ result = "Err"
    /\ pre.op = "step" /\ pre.result = "Err"
    /\ pre.state = State2 /\ state = State3
    /\ sh.state = State3
    /\ pins # sh.pins

\* C17: starting with all four pins Low, in every state of an execution in
\* which no pin write fails at most two pins are High, two High pins are
\* neighbours in the cyclic wire order A-B-C-D-A, and the pins show either the
\* pattern of the stored state or all Low.
C17_NoFailPinsSafe ==
    LET hi == {i \in 1..4 : pins[i] = High}
    IN  /\ Cardinality(hi) <= 2
        /\ \A i, j \in hi : i < j => (j - i = 1 \/ j - i = 3)
        /\ (pins = get_pin_states(state) \/ pins = <<Low, Low, Low, Low>>)

C17_Witness ==
    /\ op = "step" /\ pre.op = "stop"
    /\ pre.pins = <<Low, Low, Low, Low>>
    /\ state = State8 /\ dir = Reverse
    /\ pins = <<High, Low, Low, High>>
    /\ fails = {}

\* C15: from any stored state s in 1..8, n step calls with direction Normal,
\* then set_direction(Reverse), then n more step calls bring the stored state
\* back to s, and the pins to the pattern of s when no write of these calls
\* failed, for every n >= 1; from State0 the same sequence ends in State8.
C15_ThereAndBack ==
    (trip.fwd >= 1 /\ trip.back = trip.fwd) =>
        /\ trip.from \in 1..8 =>
              /\ state = trip.from
              /\ trip.clean => pins = get_pin_states(trip.from)
        /\ trip.from = State0 => state = State8

C15_Witness ==
    /\ trip.from = State7
    /\ trip.fwd = 3 /\ trip.back = 3
    /\ ~trip.clean
    /\ state = State7
    /\ dir = Reverse

\* C19: in the loop of main, when no pin write fails, the calls repeat as
\* 5000 step calls, one stop, one set_direction that flips the direction of
\* the motor; count stays within 0..5000, stop is called only when count is
\* 5000, and the direction variable of main equals the stored direction.
C19_MainLoopSequence ==
    [][ /\ count' \in 0..MainSteps
        /\ op' = "step" => (count < MainSteps /\ count' = count + 1
                            /\ op \in {"new", "step", "set_direction"})
        /\ op' = "stop" => (count = MainSteps /\ count' = count /\ op = "step")
        /\ op' = "set_direction" => (op = "stop" /\ dir' # dir /\ dir' = arg'
                                     /\ count' = 0)
        /\ direction' = dir'
      ]_vars

C19_Witness ==
    /\ op = "set_direction" /\ pre.op = "stop"
    /\ dir = Normal /\ direction = Normal
    /\ count = 0
    /\ stepped

\* C20: in the loop of main, when no pin write fails, the stored state is
\* State8 at every stop call: the first 5000 steps from State0 end in State8
\* and every later run of 5000 steps, in either direction, begins and ends
\* in State8.
C20_StopAtState8 ==
    /\ op = "stop" => (state = State8 /\ pre.state = State8)
    /\ count = MainSteps => state = State8
    /\ (count = 0 /\ stepped) => state = State8

C20_Witness ==
    /\ op = "stop" /\ result = "Ok"
    /\ dir = Reverse /\ direction = Reverse
    /\ count = MainSteps
    /\ state = State8
    /\ pre.pins = <<High, Low, Low, High>>

====
